---------------------------- MODULE Spec2Model ----------------------------
(***************************************************************************)
(* State machine of model/tableModel.go: the TableModel of a terminal      *)
(* table viewer (horizontal column window, sort, filter, reset, export)    *)
(* driven by key and resize events through TableModel.Update.              *)
(*                                                                         *)
(* Strings are sequences of byte values (49 = "1", 72 = "H", ...), so that *)
(* strconv.ParseFloat, the byte-wise string order, strings.ToLower and     *)
(* strings.Contains are computed rather than assumed.                      *)
(*                                                                         *)
(* The embedded bubbles table widget is modelled by the part of its state  *)
(* the program reads back: its columns, its rows and its cursor.           *)
(***************************************************************************)
EXTENDS Integers, Sequences, FiniteSets, TLC

\* ------------------------------------------------------------------ bounds
\* Most rows in a loaded dataset.
MaxRows == 3
\* Most columns in a loaded dataset.
MaxCols == 2
\* Most characters typed into the filter input.
MaxQueryLen == 1

\* ----------------------------------------------------------------- strings
Min(a, b) == IF a < b THEN a ELSE b
Max(a, b) == IF a > b THEN a ELSE b

IsDigit(c) == c \in 48..57

\* strconv.ParseFloat succeeds: digits with at most one ".", at least one
\* digit.  (Sign, exponent, hex, "inf" and "nan" forms need bytes that the
\* cell alphabet of this model does not contain.)
ParseOK(s) ==
    /\ Len(s) > 0
    /\ \A i \in 1..Len(s) : IsDigit(s[i]) \/ s[i] = 46
    /\ Cardinality({i \in 1..Len(s) : s[i] = 46}) <= 1
    /\ \E i \in 1..Len(s) : IsDigit(s[i])

RECURSIVE Pow10(_)
Pow10(n) == IF n = 0 THEN 1 ELSE 10 * Pow10(n - 1)

\* The digits of s read as one integer (the "." skipped).
RECURSIVE Mantissa(_)
Mantissa(s) ==
    IF Len(s) = 0 THEN 0
    ELSE LET c == s[Len(s)]
             r == Mantissa(SubSeq(s, 1, Len(s) - 1))
         IN IF IsDigit(c) THEN 10 * r + (c - 48) ELSE r

\* The number of digits after the ".".
FracDigits(s) ==
    IF \E i \in 1..Len(s) : s[i] = 46
    THEN Len(s) - (CHOOSE i \in 1..Len(s) : s[i] = 46)
    ELSE 0

\* aNum < bNum for two strings that parse: Mantissa / 10^FracDigits compared.
NumLess(a, b) ==
    Mantissa(a) * Pow10(FracDigits(b)) < Mantissa(b) * Pow10(FracDigits(a))

\* Go's a < b on strings: byte-wise lexicographic.
StrLess(a, b) ==
    \E k \in 0..Min(Len(a), Len(b)) :
        /\ \A i \in 1..k : a[i] = b[i]
        /\ \/ (k = Len(a) /\ k < Len(b))
           \/ (k < Len(a) /\ k < Len(b) /\ a[k + 1] < b[k + 1])

\* strings.ToLower on the bytes of the model: A-Z to a-z, others kept.
ToLower(s) == [i \in 1..Len(s) |-> IF s[i] \in 65..90 THEN s[i] + 32 ELSE s[i]]

\* strings.Contains(s, sub).
Contains(s, sub) ==
    \E k \in 0..(Len(s) - Len(sub)) :
        \A i \in 1..Len(sub) : s[k + i] = sub[i]

\* The comparator handed to sort.Slice, on two cells.
Less(a, b, asc) ==
    IF ParseOK(a) /\ ParseOK(b)
    THEN IF asc THEN NumLess(a, b) ELSE NumLess(b, a)
    ELSE IF asc THEN StrLess(a, b) ELSE StrLess(b, a)


\* -------------------------------------------------------------- input data
\* Cell values of the datasets: "10", "1H", "9", "9.0".  "9" and "9.0"
\* parse to the same number; "10" < "1H" < "9" as strings while 9 < 10 as
\* numbers; "1H" holds an upper-case letter.
MasterKeys == << <<49, 48>>, <<49, 72>>, <<57>>, <<57, 46, 48>> >>

\* The cell of master row i in column c (1-based): each column holds the
\* master keys, rotated by one per column.
MasterCell(i, c) == MasterKeys[((i + c - 2) % Len(MasterKeys)) + 1]

MasterRow(i, len) == [c \in 1..len |-> MasterCell(i, c)]

\* A header title of n bytes ("h" repeated): 2 bytes give a column of
\* width 10, 20 bytes one of width 22.
HeaderOfLen(n) == [i \in 1..n |-> 104]

\* Runs of 0..MaxRows consecutive master rows from the first or the second
\* on, the master list taken as a cycle (the run of all master rows from
\* the first only): the row numbers of a dataset, in load order.
RowChoices ==
    UNION { { [r \in 1..n |-> ((start + r - 2) % Len(MasterKeys)) + 1] :
                start \in 1..(IF n = Len(MasterKeys) THEN 1 ELSE 2) } :
            n \in 0..Min(MaxRows, Len(MasterKeys)) }

\* TableData values with full-length rows and short headers.
FullDatasets ==
    { [Headers |-> [c \in 1..MaxCols |-> HeaderOfLen(2)],
       Rows    |-> [r \in 1..Len(f) |-> MasterRow(f[r], MaxCols)]] : f \in RowChoices }

\* TableData values with 0..MaxCols columns and one row, at most one of the
\* headers long.
WideDatasets ==
    UNION { { [Headers |-> [c \in 1..ncols |-> HeaderOfLen(IF c = long THEN 20 ELSE 2)],
               Rows    |-> << MasterRow(1, ncols) >>]
              : long \in 0..ncols } : ncols \in 0..MaxCols }

\* TableData values with 1..MaxCols columns and two rows, one of them
\* shorter than the header list.
RaggedDatasets ==
    UNION { { [Headers |-> [c \in 1..ncols |-> HeaderOfLen(2)],
               Rows    |-> [r \in 1..Min(2, MaxRows) |->
                              MasterRow(r, IF sh[1] = r THEN sh[2] ELSE ncols)]]
              : sh \in (1..Min(2, MaxRows)) \X (0..(ncols - 1)) } : ncols \in 1..MaxCols }

Datasets == FullDatasets \cup WideDatasets \cup RaggedDatasets

\* Strings for the export: "h", "x" and "y" are plain, the others hold a
\* comma (","), a quote ("x" and a quote) or a newline ("x", newline, "y").
CsvPlain == << <<104>>, <<120>>, <<121>> >>
CsvSpecial == << <<44>>, <<120, 34>>, <<120, 10, 121>> >>

\* TableData values of two columns and two full rows: the special strings
\* as cells under plain titles, and as titles over plain cells.
CsvDatasets ==
    LET plainRows == << <<CsvPlain[3], CsvPlain[2]>>, <<CsvPlain[2], CsvPlain[3]>> >>
    IN { [Headers |-> <<CsvPlain[1], CsvPlain[1]>>,
          Rows    |-> << <<CsvSpecial[1], CsvSpecial[2]>>,
                         <<CsvSpecial[3], CsvPlain[2]>> >>],
         [Headers |-> <<CsvSpecial[1], CsvSpecial[2]>>, Rows |-> plainRows],
         [Headers |-> <<CsvSpecial[3], CsvPlain[1]>>, Rows |-> plainRows] }

\* Results of term.GetSize at load: <<ok, width, height>>.
TermSizes == { <<FALSE, 0, 0>>, <<TRUE, 84, 32>> }

\* tea.WindowSizeMsg values: <<Width, Height>>.
WindowSizes == { <<11, 6>>, <<24, 6>> }

\* Runes typed into the filter input: "h", the help key of Navigating mode.
TypeChars == {104}

\* ------------------------------------------------------------ table widget
\* bubbles/table clamp(v, low, high) = min(max(v, low), high).
Clamp(v, low, high) == Min(Max(v, low), high)

\* table.New(WithColumns, WithRows, ...): the cursor starts at 0.
TableNew(cols, rows) == [cols |-> cols, rows |-> rows, cursor |-> 0]

\* table.Model.SetCursor.
TableSetCursor(t, n) == [t EXCEPT !.cursor = Clamp(n, 0, Len(t.rows) - 1)]

\* table.Model.MoveUp / MoveDown.
TableMoveUp(t, n) == [t EXCEPT !.cursor = Clamp(t.cursor - n, 0, Len(t.rows) - 1)]
TableMoveDown(t, n) == [t EXCEPT !.cursor = Clamp(t.cursor + n, 0, Len(t.rows) - 1)]

\* table.Model.SelectedRow: nil (the empty sequence) when out of range.
TableSelectedRow(t) ==
    IF t.cursor < 0 \/ t.cursor >= Len(t.rows) THEN <<>> ELSE t.rows[t.cursor + 1]

\* table.Model.Update on a key of a focused table: only "up" and "down"
\* among the keys of this model are bound by the widget.
TableUpdate(t, key) ==
    CASE key = "up"   -> TableMoveUp(t, 1)
      [] key = "down" -> TableMoveDown(t, 1)
      [] OTHER        -> t

\* Height / 2 as Go computes it (truncation toward zero).
GoHalf(h) == IF h >= 0 THEN h \div 2 ELSE -((-h) \div 2)

\* The for loop of PageUp / PageDown: n single-step moves.
RECURSIVE TableRepeat(_, _, _)
TableRepeat(t, key, n) ==
    IF n <= 0 THEN t ELSE TableRepeat(TableUpdate(t, key), key, n - 1)


\* -------------------------------------------------------------- TableModel
VARIABLES
    TableColumns,   \* []table.Column: records [Title, Width]
    AllRows,        \* the rows installed at load (baseline)
    OriginalRows,   \* the active rows (sorted / filtered)
    SortColumn,     \* -1 = unset
    SortAsc,
    FilterText,
    Filtering,      \* TRUE while the filter text is being entered
    StatusMsg,      \* record [kind, title, count]; kind "" = no message
    ScrollOffset,
    MaxColumns,
    Width,
    Height,
    TextInput,      \* the value of the text-input widget
    Table,          \* the embedded widget: record [cols, rows, cursor]
    run,            \* "running", "quit" (tea.Quit returned), "panic", or
                    \* "failed" (ShowTable returned an error before the program ran)
    LoadRows,       \* history: the rows ShowTable installed
    SortPresses,    \* history: the toggle-sorts that returned, modulo 2
    Metadata,       \* input: the QueryDuration entry of TableData.Metadata
    File            \* output/查询结果.csv: Unobserved, or [exists, bytes]

vars == << TableColumns, AllRows, OriginalRows, SortColumn, SortAsc, FilterText,
           Filtering, StatusMsg, ScrollOffset, MaxColumns, Width, Height,
           TextInput, Table, run, LoadRows, SortPresses, Metadata, File >>

\* The TableModel value m that Update receives.
M == [ TableColumns |-> TableColumns, AllRows |-> AllRows,
       OriginalRows |-> OriginalRows, SortColumn |-> SortColumn,
       SortAsc |-> SortAsc, FilterText |-> FilterText, Filtering |-> Filtering,
       StatusMsg |-> StatusMsg, ScrollOffset |-> ScrollOffset,
       MaxColumns |-> MaxColumns, Width |-> Width, Height |-> Height,
       TextInput |-> TextInput, Table |-> Table ]

\* The TableModel value Update returns becomes the program's model.
Return(m) ==
    /\ TableColumns' = m.TableColumns
    /\ AllRows' = m.AllRows
    /\ OriginalRows' = m.OriginalRows
    /\ SortColumn' = m.SortColumn
    /\ SortAsc' = m.SortAsc
    /\ FilterText' = m.FilterText
    /\ Filtering' = m.Filtering
    /\ StatusMsg' = m.StatusMsg
    /\ ScrollOffset' = m.ScrollOffset
    /\ MaxColumns' = m.MaxColumns
    /\ Width' = m.Width
    /\ Height' = m.Height
    /\ TextInput' = m.TextInput
    /\ Table' = m.Table

Status(kind, title, count) == [kind |-> kind, title |-> title, count |-> count]
NoStatus == Status("", <<>>, 0)

\* FitCount with the overflowing column counted as well.
RECURSIVE FitCountInclusive(_, _, _, _, _)
FitCountInclusive(cols, i, totalWidth, width, count) ==
    IF i >= Len(cols) THEN count
    ELSE LET total == totalWidth + cols[i + 1].Width + 2
         IN IF total > width THEN count + 1
            ELSE FitCountInclusive(cols, i + 1, total, width, count + 1)

\* The loop of CalculateMaxColumns from column i (0-based) on.
RECURSIVE FitCount(_, _, _, _, _)
FitCount(cols, i, totalWidth, width, count) ==
    IF i >= Len(cols) THEN count
    ELSE LET total == totalWidth + cols[i + 1].Width + 2
         IN IF total > width THEN count
            ELSE FitCount(cols, i + 1, total, width, count + 1)

\* CalculateMaxColumns without the skip of the columns before ScrollOffset.
CalculateMaxColumnsFromFirst(m) ==
    IF Len(m.TableColumns) = 0 THEN [m EXCEPT !.MaxColumns = 0]
    ELSE LET count == FitCount(m.TableColumns, 0, 0, m.Width, 0)
         IN [m EXCEPT !.MaxColumns =
                IF count = 0 /\ Len(m.TableColumns) > m.ScrollOffset THEN 1 ELSE count]

CalculateMaxColumns(m) ==
    IF Len(m.TableColumns) = 0 THEN [m EXCEPT !.MaxColumns = 0]
    ELSE LET count == FitCount(m.TableColumns, Max(m.ScrollOffset, 0), 0, m.Width, 0)
         IN [m EXCEPT !.MaxColumns =
                IF count = 0 /\ Len(m.TableColumns) > m.ScrollOffset THEN 1 ELSE count]

\* The rows handed to the rebuilt widget: a row with no cell at ScrollOffset
\* stays nil, the cells a short row lacks are "".
VisibleRows(rows, offset, ncols) ==
    [i \in 1..Len(rows) |->
        IF offset < Len(rows[i])
        THEN [j \in 1..ncols |->
                IF offset + j - 1 < Len(rows[i]) THEN rows[i][offset + j] ELSE <<>>]
        ELSE <<>>]

\* The down/up (or up/down) key pair sent to the rebuilt widget.
Nudge(t) ==
    IF Len(t.rows) = 0 THEN t
    ELSE IF t.cursor = 0
         THEN TableUpdate(TableUpdate(t, "down"), "up")
         ELSE TableUpdate(TableUpdate(t, "up"), "down")

UpdateVisibleColumns(m) ==
    IF Len(m.TableColumns) = 0 THEN m
    ELSE
    LET n  == Len(m.TableColumns)
        o1 == IF m.ScrollOffset < 0 THEN 0 ELSE m.ScrollOffset
        o2 == IF o1 >= n THEN n - 1 ELSE o1
        m1 == CalculateMaxColumns([m EXCEPT !.ScrollOffset = o2])
        o3 == IF o2 > 0 /\ o2 + m1.MaxColumns > n
              THEN Max(n - m1.MaxColumns, 0) ELSE o2
        endIdx == Min(o3 + m1.MaxColumns, n)
        currentCursor == m.Table.cursor
        visibleColumns == SubSeq(m.TableColumns, o3 + 1, endIdx)
        visibleRows == VisibleRows(m.OriginalRows, o3, Len(visibleColumns))
        t0 == TableNew(visibleColumns, visibleRows)
        validCursor == IF currentCursor < 0 THEN 0
                       ELSE IF currentCursor >= Len(visibleRows)
                            THEN Len(visibleRows) - 1 ELSE currentCursor
        t1 == IF Len(visibleRows) > 0 THEN TableSetCursor(t0, validCursor) ELSE t0
    IN [m1 EXCEPT !.ScrollOffset = o3, !.Table = Nudge(t1)]

EnsureCursorVisible(m) ==
    LET cursor == m.Table.cursor
        rowCount == Len(m.Table.rows)
    IN IF rowCount = 0 THEN m
       ELSE IF cursor < 0 THEN [m EXCEPT !.Table = TableSetCursor(m.Table, 0)]
       ELSE IF cursor >= rowCount
            THEN [m EXCEPT !.Table = TableSetCursor(m.Table, rowCount - 1)]
       ELSE IF Len(TableSelectedRow(m.Table)) = 0
            THEN LET t1 == TableSetCursor(m.Table, cursor)
                 IN IF Len(TableSelectedRow(t1)) = 0
                    THEN [m EXCEPT !.Table = TableSetCursor(t1, 0)]
                    ELSE [m EXCEPT !.Table = t1]
       ELSE m

\* The end of Update for every message that does not return early: the
\* message goes to the widget, then the cursor guard runs.
FallThrough(m, key) == EnsureCursorVisible([m EXCEPT !.Table = TableUpdate(m.Table, key)])


\* -------------------------------------------------------------------- sort
\* The column cell the comparator reads: rows[i][m.SortColumn].
SortCell(row, col) == row[col + 1]

\* sort.Slice calls the comparator on every element once there are two, and
\* the comparator indexes each row at SortColumn without a length check.
SortPanics(rows, col) ==
    Len(rows) >= 2 /\ \E i \in 1..Len(rows) : Len(rows[i]) <= col

\* sort.SliceIsSorted: no element is less than the one before it.
SliceIsSorted(rows, col, asc) ==
    \A i \in 2..Len(rows) : ~Less(SortCell(rows[i], col), SortCell(rows[i - 1], col), asc)

\* The reorderings of n elements: the bijections on 1..n.
IndexPermutations(n) == Permutations(1..n)

\* sort.Slice(rows, less): the slice is permuted into an order that
\* SliceIsSorted accepts; package sort does not fix the order of elements
\* neither of which is less than the other (the sort is not stable).
SliceOutcomes(rows, col, asc) ==
    IF Len(rows) < 2 THEN {rows}
    ELSE { r \in { [i \in 1..Len(rows) |-> rows[p[i]]] : p \in IndexPermutations(Len(rows)) } :
             SliceIsSorted(r, col, asc) }

\* SortRows without the rebuild of the widget.
SortRowsNoRebuild(m, sorted) ==
    IF m.SortColumn < 0 THEN m ELSE [m EXCEPT !.OriginalRows = sorted]

\* SortRows once sort.Slice has produced `sorted`.
SortRows(m, sorted) ==
    IF m.SortColumn < 0 THEN m
    ELSE UpdateVisibleColumns([m EXCEPT !.OriginalRows = sorted])

\* ------------------------------------------------------------------ filter
\* The rows of `rows` whose cell at col contains text, case-insensitively.
FilterRows(rows, col, text) ==
    LET Match(row) == Contains(ToLower(row[col + 1]), ToLower(text))
    IN SelectSeq(rows, Match)

\* ApplyFilter indexes every baseline row, and then the column list, at
\* SortColumn without a length check.
FilterPanics(m) ==
    /\ m.FilterText # <<>>
    /\ \/ \E i \in 1..Len(m.AllRows) : Len(m.AllRows[i]) <= m.SortColumn
       \/ m.SortColumn >= Len(m.TableColumns)

\* ApplyFilter filtering the active rows instead of the baseline.
ApplyFilterCumulative(m) ==
    IF m.FilterText = <<>>
    THEN LET m1 == IF Len(m.AllRows) > 0
                   THEN [m EXCEPT !.OriginalRows = m.AllRows] ELSE m
         IN [UpdateVisibleColumns(m1) EXCEPT !.StatusMsg = Status("restored", <<>>, 0)]
    ELSE LET filteredRows == FilterRows(m.OriginalRows, m.SortColumn, m.FilterText)
             m1 == UpdateVisibleColumns([m EXCEPT !.OriginalRows = filteredRows])
         IN [m1 EXCEPT !.StatusMsg =
                Status("filtered", m.TableColumns[m.SortColumn + 1].Title,
                       Len(filteredRows))]

ApplyFilter(m) ==
    IF m.FilterText = <<>>
    THEN LET m1 == IF Len(m.AllRows) > 0
                   THEN [m EXCEPT !.OriginalRows = m.AllRows] ELSE m
         IN [UpdateVisibleColumns(m1) EXCEPT !.StatusMsg = Status("restored", <<>>, 0)]
    ELSE LET filteredRows == FilterRows(m.AllRows, m.SortColumn, m.FilterText)
             m1 == UpdateVisibleColumns([m EXCEPT !.OriginalRows = filteredRows])
         IN [m1 EXCEPT !.StatusMsg =
                Status("filtered", m.TableColumns[m.SortColumn + 1].Title,
                       Len(filteredRows))]

\* -------------------------------------------------------------------- load
\* The width loop of ShowTable over the cells of column i (1-based).
RECURSIVE ColMaxWidth(_, _, _, _)
ColMaxWidth(rows, r, i, w) ==
    IF r > Len(rows) THEN w
    ELSE ColMaxWidth(rows, r + 1, i,
            IF i <= Len(rows[r]) /\ Len(rows[r][i]) > w THEN Len(rows[r][i]) + 2 ELSE w)

\* The placeholder cell of an empty dataset: the 9 bytes of the text.
NoDataCell == <<230, 151, 160, 230, 149, 176, 230, 141, 174>>

\* The QueryDuration entries of TableData.Metadata: none (a nil map or a map
\* without the key), "20ms", "20" (no unit) and "ms" (no number).
MetadataChoices ==
    { [present |-> FALSE, value |-> <<>>],
      [present |-> TRUE,  value |-> <<50, 48, 109, 115>>],
      [present |-> TRUE,  value |-> <<50, 48>>],
      [present |-> TRUE,  value |-> <<109, 115>>] }

\* data.Metadata["QueryDuration"]: the zero string when the key is absent.
MetadataLookup(md) == IF md.present THEN md.value ELSE <<>>

\* The unit strings of time.ParseDuration: ns, us, ms, s, m, h.
DurationUnits ==
    { <<110, 115>>, <<117, 115>>, <<109, 115>>, <<115>>, <<109>>, <<104>> }

\* time.ParseDuration succeeds, for unsigned values of one term without a
\* fraction: "0", or one or more digits followed by a unit.  The empty
\* string is an error.
ParseDurationOK(s) ==
    \/ s = <<48>>
    \/ \E n \in 1..Len(s) :
          /\ \A i \in 1..n : IsDigit(s[i])
          /\ SubSeq(s, n + 1, Len(s)) \in DurationUnits

\* NewTableModel(): the model before ShowTable fills it.
NewTableModel ==
    [ TableColumns |-> <<>>, AllRows |-> <<>>, OriginalRows |-> <<>>,
      SortColumn |-> -1, SortAsc |-> TRUE, FilterText |-> <<>>,
      Filtering |-> FALSE, StatusMsg |-> NoStatus, ScrollOffset |-> 0,
      MaxColumns |-> 0, Width |-> 0, Height |-> 0, TextInput |-> <<>>,
      Table |-> TableNew(<<>>, <<>>) ]

\* ShowTable up to the start of the program, for a parsable QueryDuration.
ShowTable(data, term) ==
    LET tableColumns ==
            [i \in 1..Len(data.Headers) |->
                [Title |-> data.Headers[i],
                 Width |-> Min(Max(ColMaxWidth(data.Rows, 1, i, Len(data.Headers[i]) + 2),
                                   10), 40)]]
        tableRows ==
            IF Len(data.Rows) = 0
            THEN << [i \in 1..Len(data.Headers) |-> NoDataCell] >>
            ELSE data.Rows
        m == [ TableColumns |-> tableColumns, AllRows |-> tableRows,
               OriginalRows |-> tableRows, SortColumn |-> -1, SortAsc |-> TRUE,
               FilterText |-> <<>>, Filtering |-> FALSE, StatusMsg |-> NoStatus,
               ScrollOffset |-> 0, MaxColumns |-> 0,
               Width |-> IF term[1] THEN term[2] - 4 ELSE 80,
               Height |-> IF term[1] THEN Max(term[3] - 12, 10) ELSE 20,
               TextInput |-> <<>>, Table |-> TableNew(tableColumns, tableRows) ]
    IN UpdateVisibleColumns(CalculateMaxColumns(m))

\* The export file is not tracked in this behaviour.
Unobserved == [exists |-> FALSE, bytes |-> <<>>, observed |-> FALSE]

\* The export file is tracked and does not exist yet.
NoFile == [exists |-> FALSE, bytes |-> <<>>, observed |-> TRUE]

\* ShowTable: when time.ParseDuration fails it returns the error before
\* tea.NewProgram, and the model it was building is dropped with it.
Load(data, term, md, file) ==
        LET ok == ParseDurationOK(MetadataLookup(md))
            m == IF ok THEN ShowTable(data, term) ELSE NewTableModel
        IN /\ run = IF ok THEN "running" ELSE "failed"
           /\ Metadata = md
           /\ File = file
           /\ TableColumns = m.TableColumns
           /\ AllRows = m.AllRows
           /\ OriginalRows = m.OriginalRows
           /\ SortColumn = m.SortColumn
           /\ SortAsc = m.SortAsc
           /\ FilterText = m.FilterText
           /\ Filtering = m.Filtering
           /\ StatusMsg = m.StatusMsg
           /\ ScrollOffset = m.ScrollOffset
           /\ MaxColumns = m.MaxColumns
           /\ Width = m.Width
           /\ Height = m.Height
           /\ TextInput = m.TextInput
           /\ Table = m.Table
           /\ LoadRows = m.AllRows
           /\ SortPresses = 0

Init ==
    \E data \in Datasets, term \in TermSizes, md \in MetadataChoices :
        Load(data, term, md, Unobserved)

\* The program started on an export dataset, the export file tracked.
InitCSV ==
    \E data \in CsvDatasets :
        Load(data, <<FALSE, 0, 0>>, [present |-> TRUE, value |-> <<50, 48, 109, 115>>], NoFile)

\* ------------------------------------------------------------------ Update
Navigating == run = "running" /\ ~Filtering
FilterEditing == run = "running" /\ Filtering

\* The model returned unchanged (the updated copy is discarded on a panic).
Keep(m) ==
    /\ Return(m)
    /\ LoadRows' = LoadRows /\ SortPresses' = SortPresses /\ Metadata' = Metadata

\* A run-time panic inside Update (index out of range): the program ends.
Panic == run' = "panic" /\ Keep(M) /\ File' = File

\* Update returns the model m and the program goes on.
Continue(m) == run' = run /\ Keep(m) /\ File' = File

\* esc while navigating: tea.Quit.
QuitKey ==
    /\ Navigating
    /\ run' = "quit"
    /\ Keep(M)
    /\ File' = File

\* h: ShowHelp is toggled (a field only View reads, not kept here), then
\* the message goes to the widget and the cursor guard runs.
HelpKey ==
    /\ Navigating
    /\ Continue(FallThrough(M, "h"))

\* OnSortKey toggling the direction only on a repeated sort of one column.
OnSortKeySameColumn(m, sorted) ==
    LET m1 == [m EXCEPT !.SortColumn = m.ScrollOffset,
                        !.SortAsc = IF m.SortColumn = m.ScrollOffset
                                    THEN ~m.SortAsc ELSE m.SortAsc]
    IN FallThrough(EnsureCursorVisible(SortRows(m1, sorted)), "s")

\* s: sort on the column at ScrollOffset, direction toggled; `sorted` is
\* what sort.Slice made of the active rows.
OnSortKey(m, sorted) ==
    LET m1 == [m EXCEPT !.SortColumn = m.ScrollOffset, !.SortAsc = ~m.SortAsc]
    IN FallThrough(EnsureCursorVisible(SortRows(m1, sorted)), "s")

\* Update returns the model m of a toggle-sort and the program goes on.
ContinueSorted(m) ==
    /\ run' = run
    /\ Return(m)
    /\ LoadRows' = LoadRows /\ SortPresses' = 1 - SortPresses /\ Metadata' = Metadata
    /\ File' = File

SortKey ==
    /\ Navigating
    /\ IF SortPanics(OriginalRows, ScrollOffset)
       THEN Panic
       ELSE \E sorted \in SliceOutcomes(OriginalRows, ScrollOffset, ~SortAsc) :
              ContinueSorted(OnSortKey(M, sorted))

\* OnFilterKey taking the baseline snapshot on every start.
OnFilterKeySnapshot(m) ==
    [m EXCEPT !.Filtering = TRUE, !.FilterText = <<>>, !.TextInput = <<>>,
              !.AllRows = m.OriginalRows, !.SortColumn = m.ScrollOffset]

\* f: start entering a filter for the column at ScrollOffset.
OnFilterKey(m) ==
    LET m1 == [m EXCEPT !.Filtering = TRUE, !.FilterText = <<>>, !.TextInput = <<>>]
        m2 == IF Len(m1.AllRows) = 0 /\ Len(m1.OriginalRows) > 0
              THEN [m1 EXCEPT !.AllRows = m1.OriginalRows] ELSE m1
    IN [m2 EXCEPT !.SortColumn = m.ScrollOffset]

FilterKey ==
    /\ Navigating
    /\ Continue(OnFilterKey(M))

\* r: back to the baseline rows.
OnResetKey(m) ==
    FallThrough(IF Len(m.AllRows) > 0
                THEN UpdateVisibleColumns(
                       [m EXCEPT !.OriginalRows = m.AllRows, !.FilterText = <<>>,
                                 !.StatusMsg = Status("reset", <<>>, 0)])
                ELSE m, "r")

ResetKey ==
    /\ Navigating
    /\ Continue(OnResetKey(M))

\* strings.Join(fields, ",").
RECURSIVE JoinComma(_)
JoinComma(fields) ==
    IF Len(fields) = 0 THEN <<>>
    ELSE IF Len(fields) = 1 THEN fields[1]
    ELSE fields[1] \o <<44>> \o JoinComma(Tail(fields))

\* strings.ReplaceAll(cell, "\"", "\"\"").
RECURSIVE DoubleQuotes(_)
DoubleQuotes(cell) ==
    IF Len(cell) = 0 THEN <<>>
    ELSE (IF Head(cell) = 34 THEN <<34, 34>> ELSE <<Head(cell)>>)
         \o DoubleQuotes(Tail(cell))

\* A data cell as ExportToCSV writes it: wrapped in quotes, the quotes in
\* it doubled, when it holds a comma, a quote or a newline.
CsvCell(cell) ==
    IF \E i \in 1..Len(cell) : cell[i] \in {44, 34, 10}
    THEN <<34>> \o DoubleQuotes(cell) \o <<34>>
    ELSE cell

\* The lines ExportToCSV prints for the rows from r on, each ended by "\n".
RECURSIVE CsvLines(_, _)
CsvLines(rows, r) ==
    IF r > Len(rows) THEN <<>>
    ELSE JoinComma([i \in 1..Len(rows[r]) |-> CsvCell(rows[r][i])]) \o <<10>>
         \o CsvLines(rows, r + 1)

\* The bytes ExportToCSV prints: the titles joined by commas as they are,
\* then one line per active row.
ExportToCSV(m) ==
    JoinComma([i \in 1..Len(m.TableColumns) |-> m.TableColumns[i].Title]) \o <<10>>
    \o CsvLines(m.OriginalRows, 1)

\* The file after ExportToCSV: os.MkdirAll or os.Create failed (the file is
\* as before), every write succeeded, or a write failed after n bytes (the
\* errors of fmt.Fprintln are dropped).
FileAfter(m, outcome, n) ==
    IF ~File.observed \/ outcome \in {"mkdir", "create"} THEN File
    ELSE [exists |-> TRUE, observed |-> TRUE,
          bytes |-> IF outcome = "ok" THEN ExportToCSV(m)
                    ELSE SubSeq(ExportToCSV(m), 1, n)]

\* e: ExportToCSV, then the status message from its error.
OnExportKey(m, outcome) ==
    FallThrough([m EXCEPT !.StatusMsg = IF outcome \in {"ok", "write"}
                                        THEN Status("exported", <<>>, 0)
                                        ELSE Status("exportFailed", <<>>, 0)], "e")

\* The numbers of bytes that reached the file when a write fails: none, or
\* all but the last.
WriteCuts(m, outcome) ==
    IF File.observed /\ outcome = "write"
    THEN {0, Len(ExportToCSV(m)) - 1} ELSE {0}

\* The e key with the given outcome of the file operations.
ExportWith(outcome) ==
    /\ Navigating
    /\ run' = run
    /\ Keep(OnExportKey(M, outcome))
    /\ \E n \in WriteCuts(M, outcome) : File' = FileAfter(M, outcome, n)

ExportKey == \E outcome \in {"ok", "mkdir", "create", "write"} : ExportWith(outcome)

\* A scroll to newOffset: the cursor is saved, the window rebuilt, the
\* cursor restored and guarded.
ScrollTo(m, newOffset) ==
    LET currentCursor == m.Table.cursor
        m1 == UpdateVisibleColumns([m EXCEPT !.ScrollOffset = newOffset])
    IN EnsureCursorVisible([m1 EXCEPT !.Table = TableSetCursor(m1.Table, currentCursor)])

OnLeftKey(m) ==
    FallThrough(IF m.ScrollOffset > 0 THEN ScrollTo(m, m.ScrollOffset - 1) ELSE m, "left")

LeftKey ==
    /\ Navigating
    /\ Continue(OnLeftKey(M))

OnRightKey(m) ==
    FallThrough(IF m.ScrollOffset < Len(m.TableColumns) - 1
                THEN ScrollTo(m, m.ScrollOffset + 1) ELSE m, "right")

RightKey ==
    /\ Navigating
    /\ Continue(OnRightKey(M))

OnEndKey(m) ==
    LET maxScroll == Max(Len(m.TableColumns) - 1, 0)
    IN FallThrough(IF m.ScrollOffset # maxScroll THEN ScrollTo(m, maxScroll) ELSE m,
                   "shift+right")

EndKey ==
    /\ Navigating
    /\ Continue(OnEndKey(M))

OnHomeKey(m) ==
    FallThrough(IF m.ScrollOffset > 0 THEN ScrollTo(m, 0) ELSE m, "shift+left")

HomeKey ==
    /\ Navigating
    /\ Continue(OnHomeKey(M))

OnPageUpKey(m) ==
    FallThrough([m EXCEPT !.Table = TableRepeat(m.Table, "up", GoHalf(m.Height))],
                "shift+up")

PageUpKey ==
    /\ Navigating
    /\ Continue(OnPageUpKey(M))

OnPageDownKey(m) ==
    FallThrough([m EXCEPT !.Table = TableRepeat(m.Table, "down", GoHalf(m.Height))],
                "shift+down")

PageDownKey ==
    /\ Navigating
    /\ Continue(OnPageDownKey(M))

\* up / down: no case of Update matches; the widget moves its cursor.
UpKey ==
    /\ Navigating
    /\ Continue(FallThrough(M, "up"))

DownKey ==
    /\ Navigating
    /\ Continue(FallThrough(M, "down"))

\* enter while the filter text is entered.
OnFilterEnter(m) ==
    LET m1 == [m EXCEPT !.Filtering = FALSE, !.FilterText = m.TextInput]
    IN [ApplyFilter(m1) EXCEPT !.TextInput = <<>>]

FilterEnter ==
    /\ FilterEditing
    /\ IF FilterPanics([M EXCEPT !.FilterText = TextInput])
       THEN Panic
       ELSE Continue(OnFilterEnter(M))

\* OnFilterEsc leaving the filter entry open.
OnFilterEscStay(m) ==
    LET m1 == [m EXCEPT !.FilterText = <<>>, !.TextInput = <<>>]
        m2 == IF Len(m1.AllRows) > 0 THEN [m1 EXCEPT !.OriginalRows = m1.AllRows] ELSE m1
    IN UpdateVisibleColumns(m2)

\* OnFilterEsc without the restore of the baseline rows.
OnFilterEscKeepRows(m) ==
    UpdateVisibleColumns([m EXCEPT !.Filtering = FALSE, !.FilterText = <<>>,
                                   !.TextInput = <<>>])

\* esc while the filter text is entered.
OnFilterEsc(m) ==
    LET m1 == [m EXCEPT !.Filtering = FALSE, !.FilterText = <<>>, !.TextInput = <<>>]
        m2 == IF Len(m1.AllRows) > 0 THEN [m1 EXCEPT !.OriginalRows = m1.AllRows] ELSE m1
    IN UpdateVisibleColumns(m2)

FilterEsc ==
    /\ FilterEditing
    /\ Continue(OnFilterEsc(M))

\* Any other key while the filter text is entered goes to the text input
\* and Update returns at once.  The position of the text cursor is not
\* kept: a rune is inserted at any position k, backspace drops the rune
\* before any position k (none when k = 0).
TextInsert(text, k, c) == SubSeq(text, 1, k) \o <<c>> \o SubSeq(text, k + 1, Len(text))

TextDelete(text, k) ==
    IF k = 0 THEN text ELSE SubSeq(text, 1, k - 1) \o SubSeq(text, k + 1, Len(text))

\* The default case with the message passed on to the widget and the cursor
\* guard as well.
OnFilterInputThenWidget(m, key, text) == FallThrough([m EXCEPT !.TextInput = text], key)

\* The default case of the filter entry: the text input takes the key and
\* Update returns.
OnFilterInput(m, key, text) == [m EXCEPT !.TextInput = text]

\* A printable key, the letters bound to actions in Navigating mode included.
FilterType ==
    /\ FilterEditing
    /\ Len(TextInput) < MaxQueryLen
    /\ \E c \in TypeChars, k \in 0..Len(TextInput) :
          Continue(OnFilterInput(M, "rune", TextInsert(M.TextInput, k, c)))

FilterBackspace ==
    /\ FilterEditing
    /\ \E k \in 0..Len(TextInput) :
          Continue(OnFilterInput(M, "backspace", TextDelete(M.TextInput, k)))

\* Arrow and shift+arrow keys: the text input moves its cursor or ignores
\* the key; its value stays.
MoveKeys == {"down", "shift+up"}

FilterMove ==
    /\ FilterEditing
    /\ \E key \in MoveKeys : Continue(OnFilterInput(M, key, M.TextInput))

\* tea.WindowSizeMsg, in either mode.
OnWindowSize(m, ws) ==
    LET reservedHeight == 4 + (IF m.Filtering THEN 1 ELSE 0)
                            + (IF m.FilterText # <<>> THEN 1 ELSE 0)
                            + (IF m.StatusMsg.kind # "" THEN 1 ELSE 0)
        m1 == [m EXCEPT !.Width = ws[1], !.Height = ws[2] - reservedHeight]
    IN FallThrough(UpdateVisibleColumns(CalculateMaxColumns(m1)), "resize")

Resize ==
    /\ run = "running"
    /\ \E ws \in WindowSizes : Continue(OnWindowSize(M, ws))

Next ==
    \/ QuitKey
    \/ HelpKey
    \/ SortKey
    \/ FilterKey
    \/ ResetKey
    \/ ExportKey
    \/ LeftKey
    \/ RightKey
    \/ EndKey
    \/ HomeKey
    \/ PageUpKey
    \/ PageDownKey
    \/ UpKey
    \/ DownKey
    \/ FilterEnter
    \/ FilterEsc
    \/ FilterType
    \/ FilterBackspace
    \/ FilterMove
    \/ Resize

Spec == Init /\ [][Next]_vars

\* The same program on the export datasets, with the export file tracked.
SpecCSV == InitCSV /\ [][Next]_vars


\* ------------------------------------------------------------------ claims
\* Every row of the loaded dataset has at least one cell.
NoEmptyRow == \A i \in 1..Len(LoadRows) : Len(LoadRows[i]) > 0

\* C1: whenever the widget holds at least one row, its cursor is within
\* 0..rowCount-1 and the row at the cursor is a non-empty rendered row, for
\* any loaded dataset, rows shorter than the column list included (stated
\* here for the datasets with a column and no row without cells).
C1_CursorValidity ==
    (Len(TableColumns) > 0 /\ NoEmptyRow /\ Len(Table.rows) > 0) =>
        /\ 0 <= Table.cursor
        /\ Table.cursor < Len(Table.rows)
        /\ Len(TableSelectedRow(Table)) > 0

\* The sum of Width + 2 over the columns from (0-based) to from + k - 1.
RECURSIVE WindowWidth(_, _, _)
WindowWidth(cols, from, k) ==
    IF k <= 0 THEN 0 ELSE cols[from + k].Width + 2 + WindowWidth(cols, from, k - 1)

\* The number of consecutive columns from ScrollOffset on that fit in Width.
FittingColumns ==
    CHOOSE k \in 0..(Len(TableColumns) - ScrollOffset) :
        /\ WindowWidth(TableColumns, ScrollOffset, k) <= Width
        /\ \A j \in (k + 1)..(Len(TableColumns) - ScrollOffset) :
              WindowWidth(TableColumns, ScrollOffset, j) > Width

\* C2: 0 <= ScrollOffset < max(1, columnCount) and ScrollOffset + MaxColumns
\* <= columnCount in every state; move-right adds exactly 1 to ScrollOffset
\* unless it is at the last offset, move-left subtracts exactly 1 unless it
\* is 0, and then they leave it unchanged.
C2_ScrollState ==
    /\ 0 <= ScrollOffset
    /\ ScrollOffset < Max(1, Len(TableColumns))
    /\ ScrollOffset + MaxColumns <= Len(TableColumns)

C2_ScrollSteps ==
    /\ \/ ScrollOffset' = IF ScrollOffset = Max(1, Len(TableColumns)) - 1
                          THEN ScrollOffset ELSE ScrollOffset + 1
       \/ ~RightKey
    /\ \/ ScrollOffset' = IF ScrollOffset = 0 THEN 0 ELSE ScrollOffset - 1
       \/ ~LeftKey

C2_ScrollBounds == [](C2_ScrollState) /\ [][C2_ScrollSteps]_vars

\* C2 witness: a right move has taken the window off the first column of a
\* table that was resized.
C2_Witness == run = "running" /\ ScrollOffset > 0 /\ Width = 11

\* C3: MaxColumns is the number of consecutive columns from ScrollOffset
\* whose accumulated Width + 2 fits in Width, 1 when not even the first
\* fits; so the window fits or holds one column, and MaxColumns >= 1 when
\* there is a column.
C3_ColumnWindow ==
    /\ Len(TableColumns) = 0 => MaxColumns = 0
    /\ Len(TableColumns) > 0 =>
        /\ MaxColumns = IF FittingColumns = 0 THEN 1 ELSE FittingColumns
        /\ MaxColumns >= 1
        /\ \/ WindowWidth(TableColumns, ScrollOffset, MaxColumns) <= Width
           \/ MaxColumns = 1

\* C3 witness: after a resize to a width that no column fits, one column is
\* shown, off the first column.
C3_Witness ==
    /\ run = "running" /\ Width = 11 /\ MaxColumns = 1 /\ ScrollOffset > 0
    /\ WindowWidth(TableColumns, ScrollOffset, 1) > Width

\* C4: when ScrollOffset > 0 and the window reaches the last column, the
\* column before the window could not be shown as well.
C4_NoStrandedSpace ==
    (ScrollOffset > 0 /\ ScrollOffset + MaxColumns = Len(TableColumns)) =>
        WindowWidth(TableColumns, ScrollOffset - 1, MaxColumns + 1) > Width


\* The baseline rows whose cell at col contains text, case-insensitively,
\* in baseline order.
MatchingBaseline(col, text) ==
    LET Hit(row) == \E k \in 0..(Len(row[col + 1]) - Len(text)) :
                        \A i \in 1..Len(text) :
                            ToLower(row[col + 1])[k + i] = ToLower(text)[i]
    IN SelectSeq(AllRows, Hit)

\* C5: start-filter picks the column at ScrollOffset and it stays the
\* filter column while the text is entered; a confirm with a non-empty
\* query makes the active rows exactly the baseline rows whose cell in that
\* column contains the query case-insensitively, in baseline order, and
\* reports their number, whatever was sorted or filtered before.
C5_FilterStep ==
    /\ FilterKey => SortColumn' = ScrollOffset
    /\ (Filtering /\ Filtering') => SortColumn' = SortColumn
    /\ (FilterEnter /\ TextInput # <<>> /\ run' = "running") =>
          /\ OriginalRows' = MatchingBaseline(SortColumn, TextInput)
          /\ FilterText' = TextInput
          /\ StatusMsg'.kind = "filtered"
          /\ StatusMsg'.count = Len(MatchingBaseline(SortColumn, TextInput))

C5_FilterResult == [][C5_FilterStep]_vars

\* C5 witness: after a sort, a filter on the second column was confirmed
\* and kept some but not all baseline rows.
C5_Witness ==
    /\ run = "running" /\ ~Filtering /\ FilterText # <<>>
    /\ StatusMsg.kind = "filtered" /\ SortColumn = 1 /\ ~SortAsc
    /\ Len(OriginalRows) > 0 /\ Len(OriginalRows) < Len(AllRows)

\* C6: a confirm with an empty query, a cancel of the filter entry and a
\* reset each leave the active rows equal to the baseline, in load order,
\* and the filter text empty.
C6_RestoreStep ==
    \/ /\ OriginalRows' = AllRows'
       /\ OriginalRows' = LoadRows
       /\ FilterText' = <<>>
    \/ ~((TextInput = <<>> /\ FilterEnter) \/ FilterEsc \/ ResetKey)

C6_FilterRoundTrip == [][C6_RestoreStep]_vars

\* C6 witness: a reset has brought back all rows of a table that was
\* sorted descending.
C6_Witness ==
    /\ run = "running" /\ StatusMsg.kind = "reset" /\ ~SortAsc /\ SortColumn >= 0
    /\ Len(AllRows) >= 2 /\ OriginalRows = AllRows /\ FilterText = <<>>

\* C7: the baseline AllRows is the rows installed at load, in every state.
C7_BaselineImmutable == AllRows = LoadRows

\* C7 witness: the active rows differ from the baseline after a sort or a
\* filter, and an export has run.
C7_Witness ==
    /\ run = "running" /\ SortColumn >= 0 /\ OriginalRows # AllRows
    /\ StatusMsg.kind = "exported"

\* Neither cell is ordered before the other by the comparator.
Tie(a, b, asc) == ~Less(a, b, asc) /\ ~Less(b, a, asc)

\* C8: a toggle-sort keeps the prior relative order of any two active rows
\* whose cells in the sort column compare as equal.
C8_SortStep ==
    (SortKey /\ run' = "running") =>
        \E p \in IndexPermutations(Len(OriginalRows)) :
            /\ OriginalRows' = [i \in 1..Len(OriginalRows) |-> OriginalRows[p[i]]]
            /\ \A i, j \in 1..Len(OriginalRows) :
                  (i < j /\ Tie(SortCell(OriginalRows[p[i]], ScrollOffset),
                                SortCell(OriginalRows[p[j]], ScrollOffset), SortAsc'))
                  => p[i] < p[j]

C8_SortStable == [][C8_SortStep]_vars

Reverse(q) == [i \in 1..Len(q) |-> q[Len(q) + 1 - i]]

\* Every active row has a cell in column col (0-based).
HasColumn(col) == \A i \in 1..Len(OriginalRows) : Len(OriginalRows[i]) > col

DistinctCells(col) ==
    \A i, j \in 1..Len(OriginalRows) :
        i # j => SortCell(OriginalRows[i], col) # SortCell(OriginalRows[j], col)

\* C9: for the active rows and every column, sorting a sorted collection
\* again in the same direction yields the same sequence, and when the cell
\* strings of the column are pairwise distinct, sorting it in the opposite
\* direction yields the reverse sequence.
C9_SortTwice ==
    \A col \in 0..(Len(TableColumns) - 1), asc \in BOOLEAN :
        HasColumn(col) =>
            \A s1 \in SliceOutcomes(OriginalRows, col, asc) :
                /\ \A s2 \in SliceOutcomes(s1, col, asc) : s2 = s1
                /\ DistinctCells(col) =>
                      \A s2 \in SliceOutcomes(s1, col, ~asc) : s2 = Reverse(s1)

\* C10: s sets SortColumn to ScrollOffset, negates SortAsc and permutes the
\* active rows so that no row precedes a row the comparator orders strictly
\* before it in the new direction; ScrollOffset, the baseline and the
\* filter text are unchanged.
C10_SortStep ==
    (SortKey /\ run' = "running") =>
        /\ SortColumn' = ScrollOffset
        /\ SortAsc' = ~SortAsc
        /\ \E p \in IndexPermutations(Len(OriginalRows)) :
              OriginalRows' = [i \in 1..Len(OriginalRows) |-> OriginalRows[p[i]]]
        /\ \A i, j \in 1..Len(OriginalRows') :
              i < j => ~Less(SortCell(OriginalRows'[j], ScrollOffset),
                             SortCell(OriginalRows'[i], ScrollOffset), SortAsc')
        /\ ScrollOffset' = ScrollOffset
        /\ AllRows' = AllRows
        /\ FilterText' = FilterText

C10_ToggleSort == [][C10_SortStep]_vars

\* C11: ShowTable fails at load exactly when the metadata holds a
\* QueryDuration value that does not parse as a duration; with the entry
\* absent the load succeeds; and after a failed load no event is handled.
C11_LoadState ==
    (run = "failed") <=> (Metadata.present /\ ~ParseDurationOK(Metadata.value))

C11_LoadStep == (run = "failed") => (run' = "failed")

C11_OptionalDuration == [](C11_LoadState) /\ [][C11_LoadStep]_vars

\* A CSV reader under the standard quoting rules, from byte i of b on: st
\* is "start" (at the start of a field), "bare" (in an unquoted field),
\* "quoted" (inside quotes) or "closed" (after a closing quote).  The result
\* is [ok, records]: the records read, ok FALSE for a quote inside an
\* unquoted field, text after a closing quote, or an unterminated quoted
\* field.  A newline at the end of the input ends the last record.
CsvError == [ok |-> FALSE, records |-> <<>>]

RECURSIVE CsvRead(_, _, _, _, _, _)
CsvRead(b, i, st, field, rec, recs) ==
    IF i > Len(b)
    THEN IF st = "quoted" THEN CsvError
         ELSE IF st = "start" /\ rec = <<>> THEN [ok |-> TRUE, records |-> recs]
         ELSE [ok |-> TRUE, records |-> Append(recs, Append(rec, field))]
    ELSE LET c == b[i]
         IN IF st = "quoted"
            THEN IF c = 34 THEN CsvRead(b, i + 1, "closed", field, rec, recs)
                 ELSE CsvRead(b, i + 1, "quoted", Append(field, c), rec, recs)
            ELSE IF c = 44
            THEN CsvRead(b, i + 1, "start", <<>>, Append(rec, field), recs)
            ELSE IF c = 10
            THEN CsvRead(b, i + 1, "start", <<>>, <<>>, Append(recs, Append(rec, field)))
            ELSE IF c = 34
            THEN IF st = "start" THEN CsvRead(b, i + 1, "quoted", <<>>, rec, recs)
                 ELSE IF st = "closed"
                      THEN CsvRead(b, i + 1, "quoted", Append(field, 34), rec, recs)
                      ELSE CsvError
            ELSE IF st = "closed" THEN CsvError
            ELSE CsvRead(b, i + 1, "bare", Append(field, c), rec, recs)

ParseCSV(b) == CsvRead(b, 1, "start", <<>>, <<>>, <<>>)

\* C12: an export whose directory creation, file creation or write fails
\* ends with a failure status message; every export leaves the program
\* running in Navigating mode and baseline, active rows, filter text, sort
\* state, ScrollOffset, MaxColumns and cursor unchanged.
C12_ExportStep ==
    /\ \A outcome \in {"mkdir", "create", "write"} :
          ExportWith(outcome) => StatusMsg'.kind = "exportFailed"
    /\ ExportWith("ok") => StatusMsg'.kind = "exported"
    /\ ExportKey =>
          /\ run' = "running" /\ ~Filtering'
          /\ AllRows' = AllRows /\ OriginalRows' = OriginalRows
          /\ FilterText' = FilterText
          /\ SortColumn' = SortColumn /\ SortAsc' = SortAsc
          /\ ScrollOffset' = ScrollOffset /\ MaxColumns' = MaxColumns
          /\ Table'.cursor = Table.cursor

C12_ExportFailure == [][C12_ExportStep]_vars

\* C13: after a successful export, reading the file back under the standard
\* CSV quoting rules gives one record equal to the column titles, then one
\* record per active row, in active order, every field as it was.
C13_ExportStep ==
    ExportWith("ok") =>
        ParseCSV(File'.bytes) =
            [ok |-> TRUE,
             records |-> << [i \in 1..Len(TableColumns) |-> TableColumns[i].Title] >>
                         \o OriginalRows]

C13_ExportRoundTrip == [][C13_ExportStep]_vars

\* Cell j (0-based) of the window over an active row: the row's cell at
\* ScrollOffset + j, the empty string when the row has none.
WindowCell(row, j) ==
    IF ScrollOffset + j < Len(row) THEN row[ScrollOffset + j + 1] ELSE <<>>

\* C14: in a running table with a column, the widget's row i has exactly
\* MaxColumns cells for every active row i, rows without a cell at or
\* beyond ScrollOffset included, and cell j is the active row's cell at
\* ScrollOffset + j, or the empty string when there is none.
C14_WindowProjection ==
    (run = "running" /\ Len(TableColumns) > 0) =>
        /\ Len(Table.rows) = Len(OriginalRows)
        /\ \A i \in 1..Len(OriginalRows) :
              Table.rows[i] = [j \in 1..MaxColumns |-> WindowCell(OriginalRows[i], j - 1)]

\* C15: for any loaded dataset, rows shorter than the column list included,
\* a toggle-sort and a filter confirm complete: neither ends in an index
\* out of range.
C15_SortFilterStep == (SortKey \/ FilterEnter) => run' = "running"

C15_NoIndexPanic == [][C15_SortFilterStep]_vars

\* C16: FilterEditing is entered by f in Navigating mode and by nothing
\* else, and is left by the next enter or esc and by nothing else; esc in
\* FilterEditing returns to Navigating without the quit signal, and the quit
\* signal comes from esc in Navigating mode and from nothing else.
C16_ModeStep ==
    /\ FilterEditing' \/ ~FilterKey
    /\ ~FilterEditing' \/ ~FilterEnter
    /\ Navigating' \/ ~FilterEsc
    /\ run' = "quit" \/ ~QuitKey
    /\ (run' = "quit" /\ run # "quit") => (Navigating /\ QuitKey)
    /\ (FilterEditing' /\ ~FilterEditing) => (Navigating /\ FilterKey)
    /\ (FilterEditing /\ ~FilterEditing') => (FilterEnter \/ FilterEsc)
    /\ Filtering' # Filtering => (FilterKey \/ FilterEnter \/ FilterEsc)

C16_ModeProtocol == [][C16_ModeStep]_vars

\* C16 witness: back in Navigating mode after esc cancelled a filter entry
\* that was started over a confirmed filter.
C16_Witness ==
    /\ Navigating /\ StatusMsg.kind = "filtered" /\ FilterText = <<>>
    /\ OriginalRows = AllRows

\* C17: while the filter text is entered, a key other than enter and esc
\* (a letter bound in Navigating mode, backspace, an arrow or shift+arrow
\* key) changes nothing but the text input: baseline, active rows,
\* FilterText, sort state, ScrollOffset, MaxColumns, the widget's rows and
\* cursor, the status message and the export file stay, and so does the mode.
C17_FilterInputStep ==
    (FilterType \/ FilterBackspace \/ FilterMove) =>
        /\ UNCHANGED << AllRows, OriginalRows, FilterText, SortColumn, SortAsc,
                        ScrollOffset, MaxColumns, Table, StatusMsg, File >>
        /\ FilterEditing'

C17_FilterFrame == [][C17_FilterInputStep]_vars

\* C17 witness: a character was typed over a sorted table with the cursor
\* off the first row.
C17_Witness ==
    /\ FilterEditing /\ TextInput # <<>> /\ Table.cursor > 0
    /\ OriginalRows # AllRows

\* C18: a left, right, home, end or resize event leaves the cursor index as
\* it was, for every cursor position and any dataset, and leaves the active
\* rows unchanged.
C18_WindowStep ==
    (LeftKey \/ RightKey \/ HomeKey \/ EndKey \/ Resize) =>
        /\ Table'.cursor = Table.cursor
        /\ OriginalRows' = OriginalRows

C18_CursorPreserved == [][C18_WindowStep]_vars

\* C19: in a running table with a column, in either mode, the widget's
\* columns are TableColumns[ScrollOffset .. ScrollOffset + MaxColumns) and
\* the widget has one row per active row, in active order (row i is the
\* window over active row i, or holds no cell).
C19_WidgetSync ==
    (run = "running" /\ Len(TableColumns) > 0) =>
        /\ Table.cols = SubSeq(TableColumns, ScrollOffset + 1, ScrollOffset + MaxColumns)
        /\ Len(Table.rows) = Len(OriginalRows)
        /\ \A i \in 1..Len(OriginalRows) :
              \/ Table.rows[i] = <<>>
              \/ Table.rows[i] =
                    [j \in 1..MaxColumns |-> WindowCell(OriginalRows[i], j - 1)]

\* C19 witness: a table sorted into another order, scrolled off the first
\* column and resized.
C19_Witness ==
    /\ run = "running" /\ SortColumn >= 0 /\ OriginalRows # AllRows
    /\ Len(OriginalRows) = Len(AllRows) /\ ScrollOffset > 0 /\ Width = 11

\* Height / 2 by integer division, 0 when that is not positive.
PageSize == IF Height < 2 THEN 0 ELSE Height \div 2

\* C20: with at least one row in the widget, page-down moves the cursor to
\* min(cursor + Height/2, rowCount - 1) and page-up to
\* max(cursor - Height/2, 0), with no move when Height/2 <= 0; neither
\* changes the active rows or ScrollOffset.
C20_PageStep ==
    /\ (PageDownKey /\ Len(Table.rows) > 0) =>
          Table'.cursor = Min(Table.cursor + PageSize, Len(Table.rows) - 1)
    /\ (PageUpKey /\ Len(Table.rows) > 0) =>
          Table'.cursor = Max(Table.cursor - PageSize, 0)
    /\ (PageDownKey \/ PageUpKey) =>
          /\ OriginalRows' = OriginalRows
          /\ ScrollOffset' = ScrollOffset

C20_PageMoves == [][C20_PageStep]_vars

\* A row has a cell at col and the cell contains text, case-insensitively.
CellMatches(row, col, text) ==
    col < Len(row) /\ Contains(ToLower(row[col + 1]), ToLower(text))

\* C21: in every Navigating state with a non-empty FilterText, every active
\* row's cell at SortColumn (the column the filter summary names) contains
\* FilterText case-insensitively, and the number of active rows (the count
\* the summary shows) is the number of baseline rows matching FilterText in
\* that column; also after scrolling and a toggle-sort on another column.
C21_FilterSummary ==
    (Navigating /\ FilterText # <<>>) =>
        /\ \A i \in 1..Len(OriginalRows) :
              CellMatches(OriginalRows[i], SortColumn, FilterText)
        /\ Len(OriginalRows) =
              Cardinality({i \in 1..Len(AllRows) :
                              CellMatches(AllRows[i], SortColumn, FilterText)})

\* C22: SortAsc is true at load and, in every state, true exactly when the
\* number of toggle-sorts that returned since load is even: every toggle-sort
\* negates it, whether or not the sort column changes, and no other event
\* (start-filter, filter confirm, filter cancel, reset among them) changes
\* it; the toggle-sort leaves the active rows in the order of the new
\* direction on the column at ScrollOffset: descending for an odd number
\* (the first press), ascending for an even one.
C22_Parity == SortAsc = (SortPresses = 0)

C22_SortStep ==
    /\ (SortPresses' # SortPresses) =>
          SliceIsSorted(OriginalRows', ScrollOffset, SortPresses' = 0)
    /\ \/ SortAsc' = SortAsc
       \/ ~(FilterKey \/ FilterEnter \/ FilterEsc \/ ResetKey)

C22_SortDirection ==
    (SortAsc = TRUE) /\ [](C22_Parity) /\ [][C22_SortStep]_vars

\* C22 witness: after an even number of toggle-sorts, the last on another
\* column than the first, the rows are in ascending order and no longer in
\* load order.
C22_Witness ==
    /\ Navigating /\ SortPresses = 0 /\ SortAsc /\ SortColumn = 1 /\ ScrollOffset = 1
    /\ FilterText = <<>> /\ StatusMsg = NoStatus
    /\ Len(OriginalRows) >= 2 /\ Len(OriginalRows) = Len(LoadRows)
    /\ OriginalRows # LoadRows
    /\ SliceIsSorted(OriginalRows, 1, TRUE)
    /\ \E i \in 2..Len(OriginalRows) :
          Less(SortCell(OriginalRows[i - 1], 1), SortCell(OriginalRows[i], 1), TRUE)

=============================================================================
